---- MODULE Spec2Model ----
(***************************************************************************)
(* dedup_me: de-duplication ("singleflight") of concurrent executions.     *)
(*                                                                         *)
(* One dedup instance is modelled.  It is either a ThreadingDedup          *)
(* (src/dedup_me/_threading.py: OS threads, three locks, blocking events)  *)
(* or an AsyncDedup (src/dedup_me/_async.py: one event loop, coroutines    *)
(* that are atomic between two awaits).  Init chooses the class; the       *)
(* dictionaries _running, _results and _counts are the same in both.       *)
(*                                                                         *)
(* Every caller makes at most one run(key, function, force_new) call, and   *)
(* the callers are numbered in the order in which their calls enter run    *)
(* (callers differ in nothing but their name).                             *)
(* The program counter of a caller names the source line it is about to    *)
(* execute ("t.." lines of _threading.py, "a.." lines of _async.py).       *)
(* An Event object is created together with the internal key of its        *)
(* execution and is identified with that key: event[e] is the results      *)
(* event of execution e, clear_event[e] the event of its _results entry.   *)
(***************************************************************************)
EXTENDS Integers, FiniteSets, Sequences, TLC

\* number of callers (threads or tasks), each making one run call
NumCallers == 4
\* number of distinct public keys the callers choose from
NumKeys == 2
\* number of callers that call through a wrapper built by the decorator
NumWrapperCalls == 2

Callers == 1..NumCallers
Keys == 1..NumKeys

VARIABLES
    form,          \* "thread": ThreadingDedup, "async": AsyncDedup
    running,       \* self._running: public key -> internal key (and its event)
    results,       \* self._results: internal key -> result (and its clear event)
    counts,        \* self._counts: internal key -> consumer count
    running_lock,  \* self._running_lock: the caller holding it, 0 when free
    results_lock,  \* self._results_lock
    counts_lock,   \* self._counts_lock
    event,         \* the internal keys whose results event is set
    clear_event,   \* the internal keys whose clear event is set
    pc,            \* per caller: the line it is at
    key,           \* per caller: argument key of its run call
    force_new,     \* per caller: argument force_new of its run call
    owned,         \* per caller: local owned (it took the owner branch)
    internal_key,  \* per caller: local internal_key, 0 before it is assigned
    has_consumers, \* per caller: local has_consumers of _handle_result
    result,        \* per caller: local result, None before it is assigned
    ret,           \* per caller: what run returned or raised, None before
    decorator      \* threading_dedup / async_dedup: its arguments and its outcome

vars == <<form, decorator, running, results, counts, running_lock, results_lock, counts_lock,
          event, clear_event, pc, key, force_new, owned, internal_key,
          has_consumers, result, ret>>

shared == <<running, results, counts, event, clear_event>>
locks == <<running_lock, results_lock, counts_lock>>
args == <<key, force_new>>

None == <<"none">>
\* the value the function (getter) passed by caller c returns when it is invoked
Val(c) == <<"val", c>>
\* the exception the function (getter) passed by caller c raises when it fails
Exc(c) == <<"exc", c>>
\* the KeyError of a dictionary access with a missing key
KeyError == <<"KeyError">>

\* an internal key that is the same for every call
uuid4_same(c) == 1
\* uuid.uuid4().int of the run call of caller c: unique per call
uuid4(c) == c

\* an assignment that keeps the value of a key that is present (dict.setdefault)
Put_if_absent(d, k, v) == [x \in DOMAIN d \cup {k} |-> IF x \in DOMAIN d THEN d[x] ELSE v]
\* d[k] = v of a Python dict
Put(d, k, v) == [x \in DOMAIN d \cup {k} |-> IF x = k THEN v ELSE d[x]]
\* del d[k] / d.pop(k) of a Python dict
Del(d, k) == [x \in DOMAIN d \ {k} |-> d[x]]
EmptyDict == [x \in {} |-> 0]
\* a lookup that takes whichever entry the dict holds
Lookup_any_entry(d, k) == d[CHOOSE x \in DOMAIN d : \A y \in DOMAIN d : x <= y]
\* d[k] of a Python dict, for a key that is present
Lookup(d, k) == d[k]

\* no decorator applied: run is called directly
Undecorated ==
    [static_key |-> None, key |-> None, force_new |-> None, dedup |-> None,
     state |-> "undecorated"]

\* __init__ of ThreadingDedup / AsyncDedup, before any run call
Init ==
    /\ form \in {"thread", "async"}
    /\ decorator = Undecorated
    /\ running = EmptyDict
    /\ results = EmptyDict
    /\ counts = EmptyDict
    /\ running_lock = 0
    /\ results_lock = 0
    /\ counts_lock = 0
    /\ event = {}
    /\ clear_event = {}
    /\ pc = [c \in Callers |-> "idle"]
    /\ key = [c \in Callers |-> 0]
    /\ force_new = [c \in Callers |-> FALSE]
    /\ owned = [c \in Callers |-> FALSE]
    /\ internal_key = [c \in Callers |-> 0]
    /\ has_consumers = [c \in Callers |-> FALSE]
    /\ result = [c \in Callers |-> None]
    /\ ret = [c \in Callers |-> None]

\* caller c is the next one to enter run
NextToCall(c) == pc[c] = "idle" /\ \A d \in Callers : d < c => pc[d] # "idle"

\* a branch condition that never looks at force_new
TakesOwnerBranch_ignores_force(k, f) == k \notin DOMAIN running
\* a branch condition that never looks at _running
TakesOwnerBranch_always(k, f) == TRUE
\* the branch condition of run: this call starts a new execution
TakesOwnerBranch(k, f) == f \/ (k \notin DOMAIN running)

\* a removal that pops whatever entry the key has
RemoveIfCurrent_pop(d, k, e) == Del(d, k)
\* a removal that leaves the entry in place
RemoveIfCurrent_never(d, k, e) == d
\* removal of the execution from the running queue, only when it is still the current one
RemoveIfCurrent(d, k, e) == IF k \in DOMAIN d /\ d[k] = e THEN Del(d, k) ELSE d

\* an exception leaves run: every with-block the caller is in releases its lock
Raise(c, exc) ==
    /\ pc' = [pc EXCEPT ![c] = "raised"]
    /\ ret' = [ret EXCEPT ![c] = exc]
    /\ running_lock' = IF running_lock = c THEN 0 ELSE running_lock
    /\ results_lock' = IF results_lock = c THEN 0 ELSE results_lock
    /\ counts_lock' = IF counts_lock = c THEN 0 ELSE counts_lock

\* run returns v to its caller
Return(c, v) ==
    /\ pc' = [pc EXCEPT ![c] = "returned"]
    /\ ret' = [ret EXCEPT ![c] = v]

(***************************************************************************)
(* ThreadingDedup                                                          *)
(***************************************************************************)

\* run, lines 111-116 and 120-122: enter _running_lock, choose the branch
T_run_enter(c, k, f) ==
    /\ form = "thread"
    /\ NextToCall(c)
    /\ running_lock = 0
    /\ running_lock' = c
    /\ key' = [key EXCEPT ![c] = k]
    /\ force_new' = [force_new EXCEPT ![c] = f]
    /\ IF TakesOwnerBranch(k, f)
       THEN /\ owned' = [owned EXCEPT ![c] = TRUE]
            /\ internal_key' = [internal_key EXCEPT ![c] = uuid4(c)]
            /\ running' = Put(running, k, uuid4(c))
            /\ pc' = [pc EXCEPT ![c] = "t117"]
       ELSE /\ owned' = [owned EXCEPT ![c] = FALSE]
            /\ internal_key' = [internal_key EXCEPT ![c] = running[k]]
            /\ running' = running
            /\ pc' = [pc EXCEPT ![c] = "t123"]
    /\ UNCHANGED <<form, decorator, results, counts, results_lock, counts_lock, event,
                   clear_event, has_consumers, result, ret>>

\* an owner that enters _counts_lock and creates no count
T_run_init_count_skip(c) ==
    /\ form = "thread"
    /\ pc[c] = "t117"
    /\ counts_lock = 0
    /\ counts_lock' = c
    /\ counts' = counts
    /\ pc' = [pc EXCEPT ![c] = "t119"]
    /\ UNCHANGED <<form, decorator, running, results, running_lock, results_lock, event,
                   clear_event, args, owned, internal_key, has_consumers, result, ret>>

\* run, lines 117-118: the owner enters _counts_lock and creates its count
T_run_init_count(c) ==
    /\ form = "thread"
    /\ pc[c] = "t117"
    /\ counts_lock = 0
    /\ counts_lock' = c
    /\ counts' = Put(counts, internal_key[c], 0)
    /\ pc' = [pc EXCEPT ![c] = "t119"]
    /\ UNCHANGED <<form, decorator, running, results, running_lock, results_lock, event,
                   clear_event, args, owned, internal_key, has_consumers, result, ret>>

\* a join that sets the count to one instead of adding one to it
T_run_join_reset(c) ==
    /\ form = "thread"
    /\ pc[c] = "t123"
    /\ counts_lock = 0
    /\ IF internal_key[c] \in DOMAIN counts
       THEN /\ counts_lock' = c
            /\ counts' = [counts EXCEPT ![internal_key[c]] = 1]
            /\ pc' = [pc EXCEPT ![c] = "t125"]
            /\ UNCHANGED <<running_lock, results_lock, ret>>
       ELSE /\ Raise(c, KeyError)
            /\ UNCHANGED counts
    /\ UNCHANGED <<form, decorator, running, results, event, clear_event, args, owned,
                   internal_key, has_consumers, result>>

\* run, lines 123-124: the consumer enters _counts_lock and joins the count
T_run_join(c) ==
    /\ form = "thread"
    /\ pc[c] = "t123"
    /\ counts_lock = 0
    /\ IF internal_key[c] \in DOMAIN counts
       THEN /\ counts_lock' = c
            /\ counts' = [counts EXCEPT ![internal_key[c]] = @ + 1]
            /\ pc' = [pc EXCEPT ![c] = "t125"]
            /\ UNCHANGED <<running_lock, results_lock, ret>>
       ELSE /\ Raise(c, KeyError)
            /\ UNCHANGED counts
    /\ UNCHANGED <<form, decorator, running, results, event, clear_event, args, owned,
                   internal_key, has_consumers, result>>

\* a run that leaves only _counts_lock and keeps _running_lock for the rest of the call
T_run_exit_keep(c) ==
    /\ form = "thread"
    /\ pc[c] \in {"t119", "t125"}
    /\ counts_lock' = 0
    /\ pc' = [pc EXCEPT ![c] = IF owned[c] THEN "t127" ELSE "t82"]
    /\ UNCHANGED <<form, decorator, shared, running_lock, results_lock, args, owned,
                   internal_key, has_consumers, result, ret>>

\* run, end of the with blocks of lines 111 and 117/123: both locks are left
T_run_exit(c) ==
    /\ form = "thread"
    /\ pc[c] \in {"t119", "t125"}
    /\ counts_lock' = 0
    /\ running_lock' = 0
    /\ pc' = [pc EXCEPT ![c] = IF owned[c] THEN "t127" ELSE "t82"]
    /\ UNCHANGED <<form, decorator, shared, results_lock, args, owned, internal_key,
                   has_consumers, result, ret>>

\* run, line 127: function() returns (ok) or raises; its value is evaluated
\* before _handle_result is entered, so an exception leaves run at once
T_function(c, ok) ==
    /\ form = "thread"
    /\ pc[c] = "t127"
    /\ IF ok
       THEN /\ result' = [result EXCEPT ![c] = Val(c)]
            /\ pc' = [pc EXCEPT ![c] = "t44"]
            /\ UNCHANGED <<locks, ret>>
       ELSE /\ Raise(c, Exc(c))
            /\ UNCHANGED result
    /\ UNCHANGED <<form, decorator, shared, args, owned, internal_key, has_consumers>>

\* a check that finds consumers whatever the count is
HasConsumers_always(n) == TRUE
\* the zero-check of _handle_result: consumers are waiting for this result
HasConsumers(n) == n # 0

\* a check that takes the consumer before the last one for the last one
LastConsumer_early(n) == n <= 1
\* the check of _wait_for_result: this consumer is the last one to read
LastConsumer(n) == n <= 0

\* the removal of the own entry made without entering _running_lock
T_handle_remove_unlocked(c) ==
    /\ form = "thread"
    /\ pc[c] = "t44"
    /\ running' = RemoveIfCurrent(running, key[c], internal_key[c])
    /\ pc' = [pc EXCEPT ![c] = "t51"]
    /\ UNCHANGED <<form, decorator, results, counts, locks, event, clear_event, args,
                   owned, internal_key, has_consumers, result, ret>>

\* _handle_result, lines 44-48: enter _running_lock, remove the own entry
T_handle_remove(c) ==
    /\ form = "thread"
    /\ pc[c] = "t44"
    /\ running_lock = 0
    /\ running_lock' = c
    /\ running' = RemoveIfCurrent(running, key[c], internal_key[c])
    /\ pc' = [pc EXCEPT ![c] = "t49"]
    /\ UNCHANGED <<form, decorator, results, counts, results_lock, counts_lock, event,
                   clear_event, args, owned, internal_key, has_consumers, result, ret>>

\* _handle_result, end of the with block of line 44
T_handle_remove_exit(c) ==
    /\ form = "thread"
    /\ pc[c] = "t49"
    /\ running_lock' = 0
    /\ pc' = [pc EXCEPT ![c] = "t51"]
    /\ UNCHANGED <<form, decorator, shared, results_lock, counts_lock, args, owned,
                   internal_key, has_consumers, result, ret>>

\* _handle_result, lines 51-54: enter _counts_lock, the zero-check
T_handle_check(c) ==
    /\ form = "thread"
    /\ pc[c] = "t51"
    /\ counts_lock = 0
    /\ IF internal_key[c] \in DOMAIN counts
       THEN /\ counts_lock' = c
            /\ has_consumers' = [has_consumers EXCEPT ![c] = HasConsumers(counts[internal_key[c]])]
            /\ counts' = IF HasConsumers(counts[internal_key[c]])
                         THEN counts
                         ELSE Del(counts, internal_key[c])
            /\ pc' = [pc EXCEPT ![c] = "t55"]
            /\ UNCHANGED <<running_lock, results_lock, ret>>
       ELSE /\ Raise(c, KeyError)
            /\ UNCHANGED <<counts, has_consumers>>
    /\ UNCHANGED <<form, decorator, running, results, event, clear_event, args, owned,
                   internal_key, result>>

\* _handle_result, end of the with block of line 51, and lines 56, 72:
\* without consumers the result is returned at once
T_handle_check_exit(c) ==
    /\ form = "thread"
    /\ pc[c] = "t55"
    /\ counts_lock' = 0
    /\ IF has_consumers[c]
       THEN /\ pc' = [pc EXCEPT ![c] = "t59"]
            /\ UNCHANGED ret
       ELSE Return(c, result[c])
    /\ UNCHANGED <<form, decorator, shared, running_lock, results_lock, args, owned,
                   internal_key, has_consumers, result>>

\* _handle_result, lines 58-60: enter _results_lock, save the result with a new clear event
T_handle_publish(c) ==
    /\ form = "thread"
    /\ pc[c] = "t59"
    /\ results_lock = 0
    /\ results_lock' = c
    /\ results' = Put(results, internal_key[c], result[c])
    /\ clear_event' = clear_event \ {internal_key[c]}
    /\ pc' = [pc EXCEPT ![c] = "t61"]
    /\ UNCHANGED <<form, decorator, running, counts, running_lock, counts_lock, event,
                   args, owned, internal_key, has_consumers, result, ret>>

\* _handle_result, end of the with block of line 59
T_handle_publish_exit(c) ==
    /\ form = "thread"
    /\ pc[c] = "t61"
    /\ results_lock' = 0
    /\ pc' = [pc EXCEPT ![c] = "t63"]
    /\ UNCHANGED <<form, decorator, shared, running_lock, counts_lock, args, owned,
                   internal_key, has_consumers, result, ret>>

\* a set() on an event that all the executions share
T_handle_set_all(c) ==
    /\ form = "thread"
    /\ pc[c] = "t63"
    /\ event' = event \cup DOMAIN counts
    /\ pc' = [pc EXCEPT ![c] = "t66"]
    /\ UNCHANGED <<form, decorator, running, results, counts, locks, clear_event, args,
                   owned, internal_key, has_consumers, result, ret>>

\* _handle_result, line 63: event.set()
T_handle_set(c) ==
    /\ form = "thread"
    /\ pc[c] = "t63"
    /\ event' = event \cup {internal_key[c]}
    /\ pc' = [pc EXCEPT ![c] = "t66"]
    /\ UNCHANGED <<form, decorator, running, results, counts, locks, clear_event, args,
                   owned, internal_key, has_consumers, result, ret>>

\* an owner that goes on without waiting for the clear event
T_handle_drain_nowait(c) ==
    /\ form = "thread"
    /\ pc[c] = "t66"
    /\ pc' = [pc EXCEPT ![c] = "t67"]
    /\ UNCHANGED <<form, decorator, shared, locks, args, owned, internal_key,
                   has_consumers, result, ret>>

\* _handle_result, line 66: clear_event.wait() returns once the clear event is set
T_handle_drain(c) ==
    /\ form = "thread"
    /\ pc[c] = "t66"
    /\ internal_key[c] \in clear_event
    /\ pc' = [pc EXCEPT ![c] = "t67"]
    /\ UNCHANGED <<form, decorator, shared, locks, args, owned, internal_key,
                   has_consumers, result, ret>>

\* _handle_result, lines 67-68: enter _results_lock, delete the result
T_handle_retire(c) ==
    /\ form = "thread"
    /\ pc[c] = "t67"
    /\ results_lock = 0
    /\ IF internal_key[c] \in DOMAIN results
       THEN /\ results_lock' = c
            /\ results' = Del(results, internal_key[c])
            /\ pc' = [pc EXCEPT ![c] = "t68"]
            /\ UNCHANGED <<running_lock, counts_lock, ret>>
       ELSE /\ Raise(c, KeyError)
            /\ UNCHANGED results
    /\ UNCHANGED <<form, decorator, running, counts, event, clear_event, args, owned,
                   internal_key, has_consumers, result>>

\* _handle_result, end of the with block of line 67
T_handle_retire_exit(c) ==
    /\ form = "thread"
    /\ pc[c] = "t68"
    /\ results_lock' = 0
    /\ pc' = [pc EXCEPT ![c] = "t69"]
    /\ UNCHANGED <<form, decorator, shared, running_lock, counts_lock, args, owned,
                   internal_key, has_consumers, result, ret>>

\* a cleanup that enters _counts_lock and leaves the count in place
T_handle_cleanup_keep(c) ==
    /\ form = "thread"
    /\ pc[c] = "t69"
    /\ counts_lock = 0
    /\ counts_lock' = c
    /\ pc' = [pc EXCEPT ![c] = "t70"]
    /\ UNCHANGED <<form, decorator, shared, running_lock, results_lock, args, owned,
                   internal_key, has_consumers, result, ret>>

\* _handle_result, lines 69-70: enter _counts_lock, delete the count
T_handle_cleanup(c) ==
    /\ form = "thread"
    /\ pc[c] = "t69"
    /\ counts_lock = 0
    /\ IF internal_key[c] \in DOMAIN counts
       THEN /\ counts_lock' = c
            /\ counts' = Del(counts, internal_key[c])
            /\ pc' = [pc EXCEPT ![c] = "t70"]
            /\ UNCHANGED <<running_lock, results_lock, ret>>
       ELSE /\ Raise(c, KeyError)
            /\ UNCHANGED counts
    /\ UNCHANGED <<form, decorator, running, results, event, clear_event, args, owned,
                   internal_key, has_consumers, result>>

\* _handle_result, end of the with block of line 69, and line 72
T_handle_cleanup_exit(c) ==
    /\ form = "thread"
    /\ pc[c] = "t70"
    /\ counts_lock' = 0
    /\ Return(c, result[c])
    /\ UNCHANGED <<form, decorator, shared, running_lock, results_lock, args, owned,
                   internal_key, has_consumers, result>>

\* _wait_for_result, line 82: event.wait() returns once the results event is set
T_wait_event(c) ==
    /\ form = "thread"
    /\ pc[c] = "t82"
    /\ internal_key[c] \in event
    /\ pc' = [pc EXCEPT ![c] = "t84"]
    /\ UNCHANGED <<form, decorator, shared, locks, args, owned, internal_key,
                   has_consumers, result, ret>>

\* _wait_for_result, lines 84-85: enter _results_lock, read the result
T_wait_read(c) ==
    /\ form = "thread"
    /\ pc[c] = "t84"
    /\ results_lock = 0
    /\ IF internal_key[c] \in DOMAIN results
       THEN /\ results_lock' = c
            /\ result' = [result EXCEPT ![c] = Lookup(results, internal_key[c])]
            /\ pc' = [pc EXCEPT ![c] = "t86"]
            /\ UNCHANGED <<running_lock, counts_lock, ret>>
       ELSE /\ Raise(c, KeyError)
            /\ UNCHANGED result
    /\ UNCHANGED <<form, decorator, shared, args, owned, internal_key, has_consumers>>

\* _wait_for_result, end of the with block of line 84
T_wait_read_exit(c) ==
    /\ form = "thread"
    /\ pc[c] = "t86"
    /\ results_lock' = 0
    /\ pc' = [pc EXCEPT ![c] = "t87"]
    /\ UNCHANGED <<form, decorator, shared, running_lock, counts_lock, args, owned,
                   internal_key, has_consumers, result, ret>>

\* _wait_for_result, lines 87-90: enter _counts_lock, leave the count,
\* the last consumer sets the clear event
T_wait_leave(c) ==
    /\ form = "thread"
    /\ pc[c] = "t87"
    /\ counts_lock = 0
    /\ IF internal_key[c] \in DOMAIN counts
       THEN /\ counts_lock' = c
            /\ counts' = [counts EXCEPT ![internal_key[c]] = @ - 1]
            /\ clear_event' = IF LastConsumer(counts[internal_key[c]] - 1)
                              THEN clear_event \cup {internal_key[c]}
                              ELSE clear_event
            /\ pc' = [pc EXCEPT ![c] = "t91"]
            /\ UNCHANGED <<running_lock, results_lock, ret>>
       ELSE /\ Raise(c, KeyError)
            /\ UNCHANGED <<counts, clear_event>>
    /\ UNCHANGED <<form, decorator, running, results, event, args, owned, internal_key,
                   has_consumers, result>>

\* _wait_for_result, end of the with block of line 87, and line 92
T_wait_leave_exit(c) ==
    /\ form = "thread"
    /\ pc[c] = "t91"
    /\ counts_lock' = 0
    /\ Return(c, result[c])
    /\ UNCHANGED <<form, decorator, shared, running_lock, results_lock, args, owned,
                   internal_key, has_consumers, result>>

\* one step of a thread of a ThreadingDedup
ThreadNext ==
    \E c \in Callers :
        \/ \E k \in Keys, f \in BOOLEAN : T_run_enter(c, k, f)
        \/ T_run_init_count(c)
        \/ T_run_join(c)
        \/ T_run_exit(c)
        \/ \E ok \in BOOLEAN : T_function(c, ok)
        \/ T_handle_remove(c)
        \/ T_handle_remove_exit(c)
        \/ T_handle_check(c)
        \/ T_handle_check_exit(c)
        \/ T_handle_publish(c)
        \/ T_handle_publish_exit(c)
        \/ T_handle_set(c)
        \/ T_handle_drain(c)
        \/ T_handle_retire(c)
        \/ T_handle_retire_exit(c)
        \/ T_handle_cleanup(c)
        \/ T_handle_cleanup_exit(c)
        \/ T_wait_event(c)
        \/ T_wait_read(c)
        \/ T_wait_read_exit(c)
        \/ T_wait_leave(c)
        \/ T_wait_leave_exit(c)

(***************************************************************************)
(* AsyncDedup: a task runs without interruption from one await to the next *)
(***************************************************************************)

\* run, lines 98-107, up to the first await: the owner up to line 38 of
\* _handle_result, the consumer up to line 72 of _wait_for_result (its join, line 70)
A_run(c, k, f) ==
    /\ form = "async"
    /\ NextToCall(c)
    /\ key' = [key EXCEPT ![c] = k]
    /\ force_new' = [force_new EXCEPT ![c] = f]
    /\ IF TakesOwnerBranch(k, f)
       THEN /\ owned' = [owned EXCEPT ![c] = TRUE]
            /\ internal_key' = [internal_key EXCEPT ![c] = uuid4(c)]
            /\ running' = Put(running, k, uuid4(c))
            /\ counts' = Put(counts, uuid4(c), 0)
            /\ pc' = [pc EXCEPT ![c] = "a38"]
            /\ UNCHANGED <<locks, ret>>
       ELSE /\ owned' = [owned EXCEPT ![c] = FALSE]
            /\ internal_key' = [internal_key EXCEPT ![c] = running[k]]
            /\ running' = running
            /\ IF running[k] \in DOMAIN counts
               THEN /\ counts' = [counts EXCEPT ![running[k]] = @ + 1]
                    /\ pc' = [pc EXCEPT ![c] = "a72"]
                    /\ UNCHANGED <<locks, ret>>
               ELSE /\ Raise(c, KeyError)
                    /\ UNCHANGED counts
    /\ UNCHANGED <<form, decorator, results, event, clear_event, has_consumers, result>>

\* _handle_result, line 38: the awaited coroutine returns (ok) or raises; then
\* lines 41-56 up to the await of the clear event, or lines 41-47 and 59-60
A_handle_result(c, ok) ==
    /\ form = "async"
    /\ pc[c] = "a38"
    /\ IF ~ok
       THEN /\ Raise(c, Exc(c))
            /\ UNCHANGED <<shared, has_consumers, result>>
       ELSE /\ result' = [result EXCEPT ![c] = Val(c)]
            /\ running' = RemoveIfCurrent(running, key[c], internal_key[c])
            /\ IF internal_key[c] \notin DOMAIN counts
               THEN /\ Raise(c, KeyError)
                    /\ UNCHANGED <<results, counts, event, clear_event, has_consumers>>
               ELSE /\ has_consumers' = [has_consumers EXCEPT ![c] = HasConsumers(counts[internal_key[c]])]
                    /\ IF HasConsumers(counts[internal_key[c]])
                       THEN /\ results' = Put(results, internal_key[c], Val(c))
                            /\ clear_event' = clear_event \ {internal_key[c]}
                            /\ event' = event \cup {internal_key[c]}
                            /\ pc' = [pc EXCEPT ![c] = "a56"]
                            /\ UNCHANGED <<counts, locks, ret>>
                       ELSE /\ counts' = Del(counts, internal_key[c])
                            /\ Return(c, Val(c))
                            /\ UNCHANGED <<results, event, clear_event, locks>>
    /\ UNCHANGED <<form, decorator, args, owned, internal_key>>

\* _handle_result, lines 56-60: the clear event is set, the result and the count are deleted
A_handle_drain(c) ==
    /\ form = "async"
    /\ pc[c] = "a56"
    /\ internal_key[c] \in clear_event
    /\ IF internal_key[c] \in DOMAIN results /\ internal_key[c] \in DOMAIN counts
       THEN /\ results' = Del(results, internal_key[c])
            /\ counts' = Del(counts, internal_key[c])
            /\ Return(c, result[c])
            /\ UNCHANGED locks
       ELSE /\ Raise(c, KeyError)
            /\ results' = IF internal_key[c] \in DOMAIN results
                          THEN Del(results, internal_key[c])
                          ELSE results
            /\ UNCHANGED counts
    /\ UNCHANGED <<form, decorator, running, event, clear_event, args, owned, internal_key,
                   has_consumers, result>>

\* _wait_for_result, lines 72-79: the results event is set, the consumer reads
\* the result and leaves the count, the last one sets the clear event
A_wait_for_result(c) ==
    /\ form = "async"
    /\ pc[c] = "a72"
    /\ internal_key[c] \in event
    /\ IF internal_key[c] \in DOMAIN results /\ internal_key[c] \in DOMAIN counts
       THEN /\ result' = [result EXCEPT ![c] = Lookup(results, internal_key[c])]
            /\ counts' = [counts EXCEPT ![internal_key[c]] = @ - 1]
            /\ clear_event' = IF LastConsumer(counts[internal_key[c]] - 1)
                              THEN clear_event \cup {internal_key[c]}
                              ELSE clear_event
            /\ Return(c, Lookup(results, internal_key[c]))
            /\ UNCHANGED locks
       ELSE /\ Raise(c, KeyError)
            /\ result' = IF internal_key[c] \in DOMAIN results
                         THEN [result EXCEPT ![c] = Lookup(results, internal_key[c])]
                         ELSE result
            /\ UNCHANGED <<counts, clear_event>>
    /\ UNCHANGED <<form, decorator, running, results, event, args, owned, internal_key,
                   has_consumers>>

\* one step of the event loop of an AsyncDedup
AsyncNext ==
    \E c \in Callers :
        \/ \E k \in Keys, f \in BOOLEAN : A_run(c, k, f)
        \/ \E ok \in BOOLEAN : A_handle_result(c, ok)
        \/ A_handle_drain(c)
        \/ A_wait_for_result(c)

Next == ThreadNext \/ AsyncNext

Spec == Init /\ [][Next]_vars

\* the steps of caller c after it has entered run: the function it runs ends,
\* a lock that is free is taken, an event that is set wakes its waiter
Progress(c) ==
    \/ T_run_init_count(c) \/ T_run_join(c) \/ T_run_exit(c)
    \/ (\E ok \in BOOLEAN : T_function(c, ok))
    \/ T_handle_remove(c) \/ T_handle_remove_exit(c)
    \/ T_handle_check(c) \/ T_handle_check_exit(c)
    \/ T_handle_publish(c) \/ T_handle_publish_exit(c)
    \/ T_handle_set(c) \/ T_handle_drain(c)
    \/ T_handle_retire(c) \/ T_handle_retire_exit(c)
    \/ T_handle_cleanup(c) \/ T_handle_cleanup_exit(c)
    \/ T_wait_event(c) \/ T_wait_read(c) \/ T_wait_read_exit(c)
    \/ T_wait_leave(c) \/ T_wait_leave_exit(c)
    \/ (\E ok \in BOOLEAN : A_handle_result(c, ok))
    \/ A_handle_drain(c) \/ A_wait_for_result(c)

(***************************************************************************)
(* The legacy AsyncioDedup (_asyncio.py): no force_new, no locks           *)
(***************************************************************************)

\* __init__ of AsyncioDedup, before any run call
LegacyInit ==
    /\ form = "asyncio"
    /\ decorator = Undecorated
    /\ running = EmptyDict
    /\ results = EmptyDict
    /\ counts = EmptyDict
    /\ running_lock = 0
    /\ results_lock = 0
    /\ counts_lock = 0
    /\ event = {}
    /\ clear_event = {}
    /\ pc = [c \in Callers |-> "idle"]
    /\ key = [c \in Callers |-> 0]
    /\ force_new = [c \in Callers |-> FALSE]
    /\ owned = [c \in Callers |-> FALSE]
    /\ internal_key = [c \in Callers |-> 0]
    /\ has_consumers = [c \in Callers |-> FALSE]
    /\ result = [c \in Callers |-> None]
    /\ ret = [c \in Callers |-> None]

\* a branch condition that never looks at _running
LegacyTakesOwnerBranch_always(k) == TRUE
\* run, lines 78-79: self._running.get(key) found nothing
LegacyTakesOwnerBranch(k) == k \notin DOMAIN running

\* run, lines 78-89, up to the first await: the owner up to line 28 of
\* _handle_result, the consumer up to line 57 of _wait_for_result (its join, line 55)
L_run(c, k) ==
    /\ form = "asyncio"
    /\ NextToCall(c)
    /\ key' = [key EXCEPT ![c] = k]
    /\ IF LegacyTakesOwnerBranch(k)
       THEN /\ owned' = [owned EXCEPT ![c] = TRUE]
            /\ internal_key' = [internal_key EXCEPT ![c] = uuid4(c)]
            /\ running' = Put(running, k, uuid4(c))
            /\ counts' = Put(counts, uuid4(c), 0)
            /\ pc' = [pc EXCEPT ![c] = "l28"]
            /\ UNCHANGED <<locks, ret>>
       ELSE /\ owned' = [owned EXCEPT ![c] = FALSE]
            /\ internal_key' = [internal_key EXCEPT ![c] = running[k]]
            /\ running' = running
            /\ IF running[k] \in DOMAIN counts
               THEN /\ counts' = [counts EXCEPT ![running[k]] = @ + 1]
                    /\ pc' = [pc EXCEPT ![c] = "l57"]
                    /\ UNCHANGED <<locks, ret>>
               ELSE /\ Raise(c, KeyError)
                    /\ UNCHANGED counts
    /\ UNCHANGED <<form, decorator, force_new, results, event, clear_event,
                   has_consumers, result>>

\* _handle_result, line 28: the awaited coroutine returns (ok) or raises; then
\* line 31, the pop of whatever entry the public key has, whose internal key is
\* used from there on, and lines 34-43 up to the await of the clear event, or
\* lines 34 and 46-47
L_handle_result(c, ok) ==
    /\ form = "asyncio"
    /\ pc[c] = "l28"
    /\ IF ~ok
       THEN /\ Raise(c, Exc(c))
            /\ UNCHANGED <<shared, internal_key, has_consumers, result>>
       ELSE /\ result' = [result EXCEPT ![c] = Val(c)]
            /\ IF key[c] \notin DOMAIN running
               THEN /\ Raise(c, KeyError)
                    /\ UNCHANGED <<shared, internal_key, has_consumers>>
               ELSE /\ running' = Del(running, key[c])
                    /\ internal_key' = [internal_key EXCEPT ![c] = running[key[c]]]
                    /\ IF running[key[c]] \notin DOMAIN counts
                       THEN /\ Raise(c, KeyError)
                            /\ UNCHANGED <<results, counts, event, clear_event, has_consumers>>
                       ELSE /\ has_consumers' = [has_consumers EXCEPT ![c] =
                                                    HasConsumers(counts[running[key[c]]])]
                            /\ IF HasConsumers(counts[running[key[c]]])
                               THEN /\ results' = Put(results, running[key[c]], Val(c))
                                    /\ clear_event' = clear_event \ {running[key[c]]}
                                    /\ event' = event \cup {running[key[c]]}
                                    /\ pc' = [pc EXCEPT ![c] = "l43"]
                                    /\ UNCHANGED <<counts, locks, ret>>
                               ELSE /\ counts' = Del(counts, running[key[c]])
                                    /\ Return(c, Val(c))
                                    /\ UNCHANGED <<results, event, clear_event, locks>>
    /\ UNCHANGED <<form, decorator, args, owned>>

\* _handle_result, lines 43-47: the clear event is set, the result and the count are deleted
L_handle_drain(c) ==
    /\ form = "asyncio"
    /\ pc[c] = "l43"
    /\ internal_key[c] \in clear_event
    /\ IF internal_key[c] \in DOMAIN results /\ internal_key[c] \in DOMAIN counts
       THEN /\ results' = Del(results, internal_key[c])
            /\ counts' = Del(counts, internal_key[c])
            /\ Return(c, result[c])
            /\ UNCHANGED locks
       ELSE /\ Raise(c, KeyError)
            /\ results' = IF internal_key[c] \in DOMAIN results
                          THEN Del(results, internal_key[c])
                          ELSE results
            /\ UNCHANGED counts
    /\ UNCHANGED <<form, decorator, running, event, clear_event, args, owned, internal_key,
                   has_consumers, result>>

\* _wait_for_result, lines 57-64: the results event is set, the consumer reads
\* the result and leaves the count, the last one sets the clear event
L_wait_for_result(c) ==
    /\ form = "asyncio"
    /\ pc[c] = "l57"
    /\ internal_key[c] \in event
    /\ IF internal_key[c] \in DOMAIN results /\ internal_key[c] \in DOMAIN counts
       THEN /\ result' = [result EXCEPT ![c] = Lookup(results, internal_key[c])]
            /\ counts' = [counts EXCEPT ![internal_key[c]] = @ - 1]
            /\ clear_event' = IF LastConsumer(counts[internal_key[c]] - 1)
                              THEN clear_event \cup {internal_key[c]}
                              ELSE clear_event
            /\ Return(c, Lookup(results, internal_key[c]))
            /\ UNCHANGED locks
       ELSE /\ Raise(c, KeyError)
            /\ result' = IF internal_key[c] \in DOMAIN results
                         THEN [result EXCEPT ![c] = Lookup(results, internal_key[c])]
                         ELSE result
            /\ UNCHANGED <<counts, clear_event>>
    /\ UNCHANGED <<form, decorator, running, results, event, args, owned, internal_key,
                   has_consumers>>

\* one step of the event loop of an AsyncioDedup
LegacyNext ==
    \E c \in Callers :
        \/ \E k \in Keys : L_run(c, k)
        \/ \E ok \in BOOLEAN : L_handle_result(c, ok)
        \/ L_handle_drain(c)
        \/ L_wait_for_result(c)

LegacySpec == LegacyInit /\ [][LegacyNext]_vars

(***************************************************************************)
(* The decorators threading_dedup and async_dedup                          *)
(***************************************************************************)

\* the string that public key i stands for: key 1 is the empty string
Str(i) == <<"str", [j \in 1..(i - 1) |-> "k"]>>
\* an object that is neither a string, nor callable, nor a dedup instance
AnInt == <<"int", <<>>>>
\* a function of the arguments of the wrapped function
ACallable == <<"callable", <<>>>>
\* an instance of the class the decorator works with
ADedup == <<"dedup", <<>>>>
\* the TypeError of calling an object that is not callable
TypeError == <<"TypeError">>

isinstance_str(v) == v[1] = "str"
callable(v) == v[1] = "callable"
isinstance_dedup(v) == v[1] = "dedup"

\* bool(v) of Python: None and the empty string are false
Truthy(v) == v # None /\ (isinstance_str(v) => Len(v[2]) > 0)

\* the public key of the model that a string is
KeyOf(v) == Len(v[2]) + 1

\* the arguments a decorator can be given
StaticKeyArgs == {None, AnInt} \cup {Str(i) : i \in Keys}
CallableArgs == {None, AnInt, ACallable}
DedupArgs == {None, AnInt, ADedup}

\* lines 147-159: the decorator raises ValueError
RaisesValueError(static_key, key_f, force_new_f, dedup) ==
    \/ (static_key = None) = (key_f = None)
    \/ static_key # None /\ ~isinstance_str(static_key)
    \/ key_f # None /\ ~callable(key_f)
    \/ force_new_f # None /\ ~callable(force_new_f)
    \/ dedup # None /\ ~isinstance_dedup(dedup)

\* threading_dedup(...) / async_dedup(...) applied to a function: lines 147-180
Decorate(static_key, key_f, force_new_f, dedup) ==
    /\ decorator.state = "undecorated"
    /\ decorator' = [static_key |-> static_key, key |-> key_f,
                     force_new |-> force_new_f,
                     dedup |-> IF dedup = None THEN ADedup ELSE dedup,
                     state |-> IF RaisesValueError(static_key, key_f, force_new_f, dedup)
                               THEN "ValueError" ELSE "wrapped"]
    /\ UNCHANGED <<form, shared, locks, pc, args, owned, internal_key,
                   has_consumers, result, ret>>

\* f(v) where f is an argument of the decorator
Call(f, v) == IF callable(f) THEN v ELSE TypeError

\* lines 165 and 167 of the generated source: the key and force_new that inner
\* passes to run when it is called with the arguments (k, f)
KeyExpression(k) ==
    IF Truthy(decorator.static_key) THEN decorator.static_key
    ELSE Call(decorator.key, Str(k))
ForceNewExpression(f) ==
    IF Truthy(decorator.force_new) THEN Call(decorator.force_new, f) ELSE FALSE

\* inner(*args, **kwargs), lines 163-168, up to the first step of run
inner(c, k, f) ==
    /\ decorator.state = "wrapped"
    /\ c <= NumWrapperCalls
    /\ IF KeyExpression(k) = TypeError
       THEN /\ NextToCall(c)
            /\ Raise(c, TypeError)
            /\ UNCHANGED <<form, decorator, shared, args, owned, internal_key,
                           has_consumers, result>>
       ELSE \/ T_run_enter(c, KeyOf(KeyExpression(k)), ForceNewExpression(f))
            \/ A_run(c, KeyOf(KeyExpression(k)), ForceNewExpression(f))

\* a function is decorated and then called through its wrapper only
DecoNext ==
    \/ \E static_key \in StaticKeyArgs, key_f \in CallableArgs,
          force_new_f \in CallableArgs, dedup \in DedupArgs :
           Decorate(static_key, key_f, force_new_f, dedup)
    \/ \E c \in Callers :
           \/ \E k \in Keys, f \in BOOLEAN : inner(c, k, f)
           \/ Progress(c)
DecoSpec == Init /\ [][DecoNext]_vars

\* the CancelledError that asyncio raises at the await of a cancelled task
CancelledError == <<"CancelledError">>

\* the task of caller c is cancelled while it is suspended at an await (line 38,
\* 56 or 72): CancelledError is raised there and, as no try/finally encloses
\* the awaits, leaves run without any further statement
A_cancel(c) ==
    /\ form = "async"
    /\ pc[c] \in {"a38", "a56", "a72"}
    /\ Raise(c, CancelledError)
    /\ UNCHANGED <<form, decorator, shared, args, owned, internal_key, has_consumers, result>>

\* an AsyncDedup whose tasks may be cancelled by their callers
AsyncInit == Init /\ form = "async"
CancelNext == AsyncNext \/ \E c \in Callers : A_cancel(c)
CancelSpec == AsyncInit /\ [][CancelNext]_vars

\* fair scheduling of the threads (of the tasks of the event loop), and every
\* function that was started returns or raises
FairSpec == Spec /\ \A c \in Callers : WF_vars(Progress(c))

(***************************************************************************)
(* Vocabulary of the properties                                            *)
(***************************************************************************)

\* caller c has entered run
Called(c) == pc[c] # "idle"
\* run of caller c has ended, by a return or by an exception
Finished(c) == pc[c] \in {"returned", "raised"}
\* caller c joined an execution as a consumer (it found an entry in _running)
Consumer(c) == Called(c) /\ ~owned[c]
\* caller c started an execution
Owner(c) == Called(c) /\ owned[c]
\* the function (getter) of owner c has been invoked and has not ended
Producing(c) == pc[c] \in {"t127", "a38"}
\* the owner of the execution that caller c belongs to
OwnerOf(c) == CHOOSE o \in Callers : Owner(o) /\ internal_key[o] = internal_key[c]
\* the callers that joined the execution of owner o
ConsumersOf(o) == {c \in Callers : Consumer(c) /\ internal_key[c] = internal_key[o]}
\* consumer c has joined the count and waits for the results event
Waiting(c) == pc[c] \in {"t125", "t82", "a72"}
\* owner o is between its installation and its removal from _running
BeforeRemoval(o) == pc[o] \in {"t117", "t119", "t127", "t44", "a38"}
\* owner o has passed the removal step of _handle_result
AfterRemoval(o) ==
    pc[o] \in {"t49", "t51", "t55", "t59", "t61", "t63", "t66", "t67", "t68",
               "t69", "t70", "a56", "returned"}
\* owner o took the branch without consumers: nothing is saved, no event is set
NoBroadcast(o) == Owner(o) /\ pc[o] \in {"t55", "returned"} /\ ~has_consumers[o]
\* no call made so far passed force_new
NoForce == \A c \in Callers : ~force_new[c]

(***************************************************************************)
(* C1: without force_new, at most one function per key is executing at any *)
(* instant: an owner that has not yet removed itself is the execution      *)
(* registered for its key (so a caller starts its own function only when   *)
(* no execution of the key is registered), and of all the callers of one   *)
(* execution exactly one, its owner, invokes its function.                 *)
(***************************************************************************)
C1_OneProducerPerKey ==
    NoForce =>
        /\ \A k \in Keys : Cardinality({c \in Callers : Producing(c) /\ key[c] = k}) <= 1
        /\ \A o \in Callers : Owner(o) /\ BeforeRemoval(o) =>
               /\ key[o] \in DOMAIN running
               /\ running[key[o]] = internal_key[o]
        /\ \A c \in Callers : Called(c) =>
               Cardinality({o \in Callers : Owner(o) /\ internal_key[o] = internal_key[c]}) = 1
        /\ \A c \in Callers : Consumer(c) => ~Producing(c) /\ result[c] # Val(c)

\* two threads have joined the execution of a third one whose function is executing
C1_Witness ==
    /\ form = "thread"
    /\ NoForce
    /\ \E o \in Callers :
           /\ Producing(o)
           /\ Cardinality({c \in ConsumersOf(o) : Waiting(c)}) >= 2

(***************************************************************************)
(* C2: a consumer returns the value that the function of the owner of its  *)
(* execution returned, which is what the owner returns, and not the value  *)
(* of the function it passed itself.                                       *)
(***************************************************************************)
C2_ConsumerGetsOwnersValue ==
    \A c \in Callers : Consumer(c) /\ pc[c] = "returned" =>
        /\ ret[c] = Val(OwnerOf(c))
        /\ ret[c] # Val(c)
        /\ pc[OwnerOf(c)] = "returned" => ret[OwnerOf(c)] = ret[c]

\* an owner and two of its consumers have returned
C2_Witness ==
    \E o \in Callers :
        /\ Owner(o)
        /\ pc[o] = "returned"
        /\ Cardinality({c \in ConsumersOf(o) : pc[c] = "returned" /\ ret[c] = Val(o)}) >= 2

(***************************************************************************)
(* C3: the lookup in _running and the join of the count are one atomic     *)
(* step: while a caller has found an execution and not yet joined its      *)
(* count the owner has not passed its removal, and an owner never takes    *)
(* the branch without consumers when a caller has joined its execution.    *)
(***************************************************************************)
C3_JoinBeforeZeroCheck ==
    \A c \in Callers : Consumer(c) =>
        /\ ~NoBroadcast(OwnerOf(c))
        /\ pc[c] = "t123" => pc[OwnerOf(c)] \in {"t127", "t44", "raised"}
        /\ Waiting(c) /\ AfterRemoval(OwnerOf(c)) /\ pc[OwnerOf(c)] \notin {"t49", "t51"}
               => has_consumers[OwnerOf(c)]

\* a thread waits for the results event while its owner has made the zero-check
C3_Witness ==
    \E c \in Callers :
        /\ Consumer(c)
        /\ Waiting(c)
        /\ pc[OwnerOf(c)] = "t55"
        /\ has_consumers[OwnerOf(c)]

(***************************************************************************)
(* C4: when the run of an owner has ended with the failure of its          *)
(* function, every consumer that joined its execution has received that    *)
(* same failure.                                                           *)
(***************************************************************************)
C4_FailureDelivered ==
    \A o \in Callers : Owner(o) /\ pc[o] = "raised" /\ ret[o] = Exc(o) =>
        \A c \in ConsumersOf(o) : result[c] = Exc(o)

(***************************************************************************)
(* C5: under fair scheduling, when every function that was started returns *)
(* or raises, every consumer that joined an execution eventually leaves    *)
(* run.                                                                    *)
(***************************************************************************)
C5_ConsumerEventuallyReturns ==
    \A c \in Callers : (Consumer(c) /\ Waiting(c)) ~> Finished(c)

(***************************************************************************)
(* C6: when no function failed and every run call that was made has ended, *)
(* every one of them has returned and _running, _results and _counts are   *)
(* empty.                                                                  *)
(***************************************************************************)
C6_SteadyStateCleanup ==
    (/\ \A c \in Callers : Called(c) => Finished(c)
     /\ \A c \in Callers : ret[c] # Exc(c))
    =>
        /\ DOMAIN running = {}
        /\ DOMAIN results = {}
        /\ DOMAIN counts = {}
        /\ \A c \in Callers : Called(c) => pc[c] = "returned"

\* every caller has returned: owners and consumers, two keys, one call with force_new
C6_Witness ==
    /\ \A c \in Callers : pc[c] = "returned"
    /\ \E c \in Callers : Consumer(c)
    /\ \E c \in Callers : force_new[c]
    /\ \E c, d \in Callers : key[c] # key[d]

(***************************************************************************)
(* C7: when the run of an owner has ended with the failure of its function *)
(* and its consumers have finished, _running holds no entry of that        *)
(* execution, and _counts and _results hold no entry of its internal key.  *)
(***************************************************************************)
C7_CleanupAfterFailure ==
    \A o \in Callers :
        (/\ Owner(o) /\ pc[o] = "raised" /\ ret[o] = Exc(o)
         /\ \A c \in ConsumersOf(o) : Finished(c))
        =>
            /\ \A k \in DOMAIN running : running[k] # internal_key[o]
            /\ internal_key[o] \notin DOMAIN counts
            /\ internal_key[o] \notin DOMAIN results

\* the lines of the consumer branch of run and of _wait_for_result
ConsumerLines == {"t123", "t125", "t82", "t84", "t86", "t87", "t91", "a72"}

(***************************************************************************)
(* C8: once an owner has passed its removal step no entry of _running      *)
(* refers to its execution; a call without force_new that enters run when  *)
(* _running has no entry for its key becomes the owner of an execution     *)
(* with an internal key that no caller and no store holds, and it never    *)
(* joins an execution of its key whose owner has passed the removal step;  *)
(* an owner returns the value of its own function.                         *)
(***************************************************************************)
C8_Freshness ==
    [][/\ \A c \in Callers : (pc[c] = "idle" /\ pc'[c] # "idle" /\ ~force_new'[c]) =>
              /\ key'[c] \notin DOMAIN running =>
                     /\ owned'[c]
                     /\ \A d \in Callers : internal_key[d] # internal_key'[c]
                     /\ internal_key'[c] \notin (DOMAIN counts \cup DOMAIN results)
              /\ \A o \in Callers : Owner(o) /\ AfterRemoval(o) /\ key[o] = key'[c] =>
                     internal_key'[c] # internal_key[o]
       /\ \A o \in Callers : (Owner(o) /\ AfterRemoval(o))' =>
              \A k \in DOMAIN running' : running'[k] # internal_key'[o]
       /\ \A o \in Callers : (Owner(o) /\ pc[o] = "returned")' => ret'[o] = Val(o)
      ]_vars

\* without any force_new, a caller has become the owner of a new execution of a
\* key while the consumers of the previous execution of that key are still reading
C8_Witness ==
    /\ NoForce
    /\ \E o, c \in Callers :
           /\ o # c
           /\ key[o] = key[c]
           /\ Owner(o)
           /\ pc[o] \in {"t66", "a56"}
           /\ internal_key[o] \in DOMAIN results
           /\ Owner(c)
           /\ Producing(c)

(***************************************************************************)
(* C9: a call with force_new takes the owner branch whatever _running      *)
(* holds: it installs its own new internal key in _running, its count      *)
(* starts at 0, it is never at a line of the consumer branch, none of its  *)
(* steps increments a count, and it returns the value of its own function. *)
(***************************************************************************)
C9_ForceNewOwns ==
    [][\A c \in Callers : force_new'[c] =>
           /\ owned'[c]
           /\ internal_key'[c] = uuid4(c)
           /\ pc'[c] \notin ConsumerLines
           /\ pc[c] = "idle" =>
                  /\ running'[key'[c]] = uuid4(c)
                  /\ \A d \in Callers : internal_key[d] # uuid4(c)
                  /\ uuid4(c) \notin (DOMAIN counts \cup DOMAIN results)
           /\ (uuid4(c) \notin DOMAIN counts /\ uuid4(c) \in DOMAIN counts') =>
                  counts'[uuid4(c)] = 0
           /\ pc'[c] # pc[c] =>
                  \A e \in DOMAIN counts \cap DOMAIN counts' : counts'[e] <= counts[e]
           /\ pc'[c] = "returned" => ret'[c] = Val(c)
      ]_vars

\* a call with force_new has returned the value of its own function while an
\* earlier owner of the same key is still running its function
C9_Witness ==
    \E o, c \in Callers :
        /\ o < c
        /\ key[o] = key[c]
        /\ Owner(o)
        /\ Producing(o)
        /\ force_new[c]
        /\ pc[c] = "returned"
        /\ ret[c] = Val(c)

(***************************************************************************)
(* C10: when owner b was started with force_new for the key of another     *)
(* owner a, the consumers that joined a hold a's count until they have     *)
(* read, find a's result and return the value of a's function, and the     *)
(* consumers of b return the value of b's function, whichever of a and b   *)
(* completes first.                                                        *)
(***************************************************************************)
C10_ForceNewKeepsOutcomes ==
    \A a, b \in Callers :
        (Owner(a) /\ Owner(b) /\ a # b /\ key[a] = key[b] /\ force_new[b]) =>
            \A o \in {a, b} : \A c \in ConsumersOf(o) :
                /\ result[c] \in {None, Val(o)}
                /\ pc[c] = "returned" => ret[c] = Val(o)
                /\ ret[c] # KeyError
                /\ (Waiting(c) \/ pc[c] \in {"t84", "t86", "t87"}) =>
                       /\ internal_key[o] \in DOMAIN counts
                       /\ counts[internal_key[o]] >= 1
                /\ pc[c] = "t84" => internal_key[o] \in DOMAIN results

\* a consumer that joined a before b replaced it has returned a's value, and a
\* consumer of b has returned b's value
C10_Witness ==
    \E a, ca, b, cb \in Callers :
        /\ a < ca /\ ca < b /\ b < cb
        /\ key[a] = key[b]
        /\ Owner(a) /\ Owner(b) /\ force_new[b]
        /\ ca \in ConsumersOf(a) /\ pc[ca] = "returned" /\ ret[ca] = Val(a)
        /\ cb \in ConsumersOf(b) /\ pc[cb] = "returned" /\ ret[cb] = Val(b)
        /\ form = "thread"

\* owner b is the last owner that was started for its key
LatestOwner(b) == Owner(b) /\ \A d \in Callers : (d > b /\ Owner(d)) => key[d] # key[b]

(***************************************************************************)
(* C11: while an execution b that was installed with force_new has not     *)
(* passed its removal and no later execution of its key was started, a     *)
(* call without force_new for that key joins b and no other execution      *)
(* (in particular not a replaced one that is still running): it takes b's  *)
(* internal key, b's count goes up by one when it joins, and it returns    *)
(* the value of b's function.                                              *)
(***************************************************************************)
C11_JoinsForcedExecution ==
    [][/\ \A c, b \in Callers :
              (/\ pc[c] = "idle" /\ pc'[c] # "idle" /\ ~force_new'[c]
               /\ LatestOwner(b) /\ force_new[b] /\ BeforeRemoval(b)
               /\ key[b] = key'[c])
              =>
                  /\ ~owned'[c]
                  /\ internal_key'[c] = internal_key[b]
                  /\ form = "async" =>
                         counts'[internal_key[b]] = counts[internal_key[b]] + 1
       /\ \A c \in Callers : (pc[c] = "t123" /\ pc'[c] # "t123") =>
              /\ pc'[c] = "t125"
              /\ counts'[internal_key[c]] = counts[internal_key[c]] + 1
       /\ \A c, b \in Callers :
              (Consumer(c) /\ Owner(b) /\ force_new[b] /\ internal_key[c] = internal_key[b]
               /\ pc[c] = "returned")' => ret'[c] = Val(b)
      ]_vars

\* a caller has joined the forced execution b and returned b's value while the
\* replaced owner a is still running its function
C11_Witness ==
    \E a, b, c \in Callers :
        /\ a < b /\ b < c
        /\ key[a] = key[b] /\ key[b] = key[c]
        /\ Owner(a) /\ Producing(a)
        /\ Owner(b) /\ force_new[b]
        /\ Consumer(c) /\ internal_key[c] = internal_key[b]
        /\ pc[c] = "returned" /\ ret[c] = Val(b)

\* the step of owner o that contains the removal of its entry from _running
RemovalStep(o) ==
    \/ pc[o] = "t44" /\ pc'[o] # "t44"
    \/ pc[o] = "a38" /\ pc'[o] # "a38" /\ ret'[o] # Exc(o)

(***************************************************************************)
(* C12: the removal step of an owner removes the entry of its key only     *)
(* when that entry carries its own internal key: every entry of another    *)
(* execution (a forced one that replaced it) is left as it is, its own     *)
(* entry is gone afterwards, the step raises nothing when the key has no   *)
(* entry any more, and it leaves the count of every other execution in     *)
(* place.                                                                  *)
(***************************************************************************)
C12_RemoveOnlyOwnEntry ==
    [][\A o \in Callers : RemovalStep(o) =>
           /\ \A k \in DOMAIN running : running[k] # internal_key[o] =>
                  /\ k \in DOMAIN running'
                  /\ running'[k] = running[k]
           /\ \A k \in DOMAIN running' : k \in DOMAIN running /\ running'[k] # internal_key[o]
           /\ pc'[o] # "raised"
           /\ \A e \in DOMAIN counts : e # internal_key[o] =>
                  e \in DOMAIN counts' /\ counts'[e] = counts[e]
      ]_vars

\* the forced owner b has completed first and removed its entry; the replaced
\* owner a has then passed its removal step, with no entry left for its key,
\* and a's count is still there
C12_Witness ==
    \E a, b \in Callers :
        /\ a < b
        /\ key[a] = key[b]
        /\ Owner(a) /\ Owner(b) /\ force_new[b]
        /\ pc[b] = "returned"
        /\ pc[a] = "t49"
        /\ key[a] \notin DOMAIN running
        /\ internal_key[a] \in DOMAIN counts

(***************************************************************************)
(* C13: executions of distinct keys are independent: a step of a caller    *)
(* of one key sets no event of an execution of another key (it wakes none  *)
(* of its callers), changes neither its count nor its result nor the       *)
(* entry of the other key in _running, and no caller returns a value that  *)
(* was produced for another key than its own.                              *)
(***************************************************************************)
C13_KeysIndependent ==
    [][/\ \A o, c \in Callers :
              (pc'[o] # pc[o] /\ Called(c) /\ key[c] # key'[o]) =>
                  /\ internal_key[c] \in event' <=> internal_key[c] \in event
                  /\ internal_key[c] \in clear_event' <=> internal_key[c] \in clear_event
                  /\ internal_key[c] \in DOMAIN counts' <=> internal_key[c] \in DOMAIN counts
                  /\ internal_key[c] \in DOMAIN counts =>
                         counts'[internal_key[c]] = counts[internal_key[c]]
                  /\ internal_key[c] \in DOMAIN results' <=> internal_key[c] \in DOMAIN results
                  /\ internal_key[c] \in DOMAIN results =>
                         results'[internal_key[c]] = results[internal_key[c]]
                  /\ key[c] \in DOMAIN running' <=> key[c] \in DOMAIN running
                  /\ key[c] \in DOMAIN running => running'[key[c]] = running[key[c]]
       /\ \A o, c \in Callers :
              (pc'[c] = "returned" /\ ret'[c] = Val(o)) => key'[c] = key'[o]
      ]_vars

\* a thread of one key has started after the owner of another key, run its
\* function and returned while that owner is still in its function with a
\* consumer waiting for it
C13_Witness ==
    \E o, w, c \in Callers :
        /\ form = "thread"
        /\ o < c
        /\ key[o] # key[c]
        /\ Owner(o) /\ Producing(o)
        /\ w \in ConsumersOf(o) /\ pc[w] = "t82"
        /\ Owner(c) /\ pc[c] = "returned" /\ ret[c] = Val(c)

(***************************************************************************)
(* C14: in the async form a consumer whose wait for the results event was  *)
(* cancelled after it joined has left the count: the count of an           *)
(* execution is the number of its consumers that are still waiting to      *)
(* read, so that the last reader brings it to zero and sets the clear      *)
(* event.                                                                  *)
(***************************************************************************)
C14_CancelledConsumerLeaves ==
    form = "async" =>
        \A e \in DOMAIN counts :
            (\A o \in Callers : Owner(o) /\ internal_key[o] = e => pc[o] # "raised") =>
            counts[e] = Cardinality({c \in Callers :
                            Consumer(c) /\ internal_key[c] = e /\ pc[c] = "a72"})

\* the function of owner b has not ended yet
FunctionRunning(b) == pc[b] \in {"t117", "t119", "t127", "a38"}

\* what every finished call and the stores look like in both classes: a
\* returned caller holds the value of the owner of its execution, and when
\* all the calls made have ended and no function failed the stores are empty
SameOutcome ==
    /\ \A c, o \in Callers :
           (pc[c] = "returned" /\ Owner(o) /\ internal_key[o] = internal_key[c]) =>
               ret[c] = Val(o)
    /\ ((\A c \in Callers : Called(c) => Finished(c)) /\ (\A c \in Callers : ret[c] # Exc(c))) =>
           (DOMAIN running = {} /\ DOMAIN results = {} /\ DOMAIN counts = {})

(***************************************************************************)
(* C15 as stated: in both classes a call is classified by the order of its *)
(* arrival relative to the completion of the function: it is a consumer    *)
(* exactly when it has no force_new and the function of the last owner of  *)
(* its key is still running (or failed, which leaves the entry); then it   *)
(* joins that owner, every returned caller holds the value of its owner    *)
(* and the stores are empty when all calls have ended.                     *)
(***************************************************************************)
C15_ClassifiedByCompletion ==
    [][/\ \A c \in Callers : (pc[c] = "idle" /\ pc'[c] # "idle") =>
              /\ owned'[c] <=>
                     \/ force_new'[c]
                     \/ ~\E b \in Callers :
                            /\ LatestOwner(b) /\ key[b] = key'[c]
                            /\ FunctionRunning(b) \/ pc[b] = "raised"
              /\ ~owned'[c] => \E b \in Callers :
                     LatestOwner(b) /\ key[b] = key'[c] /\ internal_key'[c] = internal_key[b]
       /\ SameOutcome'
      ]_vars

(***************************************************************************)
(* C15 as amended: in both classes a call is classified by the order of    *)
(* its arrival relative to the removal step of the owner: it is a consumer *)
(* exactly when it has no force_new and the last owner of its key has not  *)
(* passed its removal (or failed); then it joins that owner, every         *)
(* returned caller holds the value of its owner and the stores are empty   *)
(* when all calls have ended.                                              *)
(***************************************************************************)
C15_ClassifiedByRemoval ==
    [][/\ \A c \in Callers : (pc[c] = "idle" /\ pc'[c] # "idle") =>
              /\ owned'[c] <=>
                     \/ force_new'[c]
                     \/ ~\E b \in Callers :
                            /\ LatestOwner(b) /\ key[b] = key'[c]
                            /\ BeforeRemoval(b) \/ pc[b] = "raised"
              /\ ~owned'[c] => \E b \in Callers :
                     LatestOwner(b) /\ key[b] = key'[c] /\ internal_key'[c] = internal_key[b]
       /\ SameOutcome'
      ]_vars

\* three threads of one key without force_new: the second one has joined the
\* first one and returned its value, the third one arrived after the removal
\* and became an owner
C15_Witness ==
    \E o, c, d \in Callers :
        /\ form = "thread"
        /\ NoForce
        /\ o < c /\ c < d
        /\ key[o] = key[c] /\ key[c] = key[d]
        /\ Owner(o) /\ pc[o] = "returned"
        /\ c \in ConsumersOf(o) /\ pc[c] = "returned" /\ ret[c] = Val(o)
        /\ Owner(d) /\ pc[d] = "returned" /\ ret[d] = Val(d)

\* a configuration with a usable key derivation: exactly one of static_key and
\* key, static_key a string, key and force_new callable, dedup of the right class
UsableConfiguration ==
    /\ (decorator.static_key = None) # (decorator.key = None)
    /\ decorator.static_key # None => isinstance_str(decorator.static_key)
    /\ decorator.key # None => callable(decorator.key)
    /\ decorator.force_new # None => callable(decorator.force_new)
    /\ isinstance_dedup(decorator.dedup)

(***************************************************************************)
(* C16: the decorator raises at setup exactly for the configurations       *)
(* without a usable key derivation, and a wrapper it has built passes a    *)
(* string key to run on every call: no call through it fails on the key,   *)
(* and with static_key (the empty string included) run gets that very key. *)
(***************************************************************************)
C16_AcceptedYieldsKey ==
    /\ decorator.state = "ValueError" => ~UsableConfiguration
    /\ decorator.state = "wrapped" =>
           /\ UsableConfiguration
           /\ \A c \in Callers : pc[c] # "idle" =>
                  /\ ret[c] # TypeError
                  /\ key[c] \in Keys
                  /\ decorator.static_key # None => key[c] = KeyOf(decorator.static_key)

\* consumer c has read the result of its execution (line 85 / line 74)
HasRead(c) == pc[c] \in {"t86", "t87", "t91", "returned"}
\* owner o has been released by the clear event (line 66 / line 56)
Drained(o) == pc[o] \in {"t67", "t68", "t69", "t70"} \/ (pc[o] = "returned" /\ has_consumers[o])

(***************************************************************************)
(* C17: the read of a consumer never misses. While the results event of an *)
(* execution is set and one of its consumers has not read yet, _results    *)
(* holds its entry (it is saved before the event is set); the entry goes   *)
(* only after the clear event is set; no caller ends with a KeyError; and  *)
(* an owner goes past its wait for the clear event, and returns, only when *)
(* every consumer that joined has read.                                    *)
(***************************************************************************)
C17_ReadNeverMisses ==
    /\ \A c \in Callers : ret[c] # KeyError
    /\ \A c \in Callers :
           (Consumer(c) /\ ~HasRead(c) /\ internal_key[c] \in event) =>
               internal_key[c] \in DOMAIN results
    /\ \A o \in Callers :
           (Owner(o) /\ internal_key[o] \in event /\ internal_key[o] \notin DOMAIN results) =>
               Drained(o) /\ internal_key[o] \in clear_event
    /\ \A o \in Callers :
           (Owner(o) /\ Drained(o)) => \A c \in ConsumersOf(o) : HasRead(c)

\* threads: the owner waits for the clear event, one of its consumers has been
\* woken and is about to read, another one has read and returned
C17_Witness ==
    \E o, c, d \in Callers :
        /\ form = "thread"
        /\ Owner(o) /\ pc[o] = "t66"
        /\ c \in ConsumersOf(o) /\ pc[c] = "t84"
        /\ d \in ConsumersOf(o) /\ pc[d] = "returned" /\ ret[d] = Val(o)
        /\ internal_key[o] \in DOMAIN results

\* owner o has made the check of its count (lines 51-54 / line 47)
Checked(o) ==
    pc[o] \in {"t55", "t59", "t61", "t63", "t66", "t67", "t68", "t69", "t70", "a56",
               "returned"}

(***************************************************************************)
(* C18: _results gets an entry for an execution exactly when its count was *)
(* not zero at the check of its owner. Before the check there is no entry  *)
(* and no event set; an owner that found the count zero has no consumer,   *)
(* saves nothing and sets no event, it has deleted its count and returns;  *)
(* an owner that found it non-zero has consumers and saves the result, and *)
(* every entry of _results belongs to such an owner.                       *)
(***************************************************************************)
C18_ResultSavedIffConsumers ==
    /\ \A o \in Callers : (Owner(o) /\ ~Checked(o)) =>
           /\ internal_key[o] \notin DOMAIN results
           /\ internal_key[o] \notin event
    /\ \A o \in Callers : (Owner(o) /\ Checked(o) /\ ~has_consumers[o]) =>
           /\ ConsumersOf(o) = {}
           /\ internal_key[o] \notin DOMAIN results
           /\ internal_key[o] \notin event
           /\ internal_key[o] \notin DOMAIN counts
           /\ pc[o] \in {"t55", "returned"}
    /\ \A o \in Callers : (Owner(o) /\ Checked(o) /\ has_consumers[o]) =>
           /\ ConsumersOf(o) # {}
           /\ pc[o] \in {"t61", "t63", "t66", "t67", "a56"} => internal_key[o] \in DOMAIN results
    /\ \A e \in DOMAIN results : \E o \in Callers :
           Owner(o) /\ internal_key[o] = e /\ Checked(o) /\ has_consumers[o]

\* threads, two executions: the owner of one found no consumer and has
\* deleted its count, the owner of the other found one and has saved its result
C18_Witness ==
    \E o, p \in Callers :
        /\ form = "thread"
        /\ Owner(o) /\ pc[o] = "t55" /\ ~has_consumers[o]
        /\ internal_key[o] \notin DOMAIN counts
        /\ Owner(p) /\ pc[p] = "t63" /\ has_consumers[p]
        /\ internal_key[p] \in DOMAIN results
        /\ DOMAIN results = {internal_key[p]}

\* consumer c has added itself to the count of its execution (line 124 / line
\* 70) and has not yet taken itself off (line 88 / line 75)
JoinedNotLeft(c) == Consumer(c) /\ pc[c] \in {"t125", "t82", "t84", "t86", "t87", "a72"}

(***************************************************************************)
(* C19: in every reachable state each entry of _counts is the number of    *)
(* callers that joined that execution as consumers and have not yet left   *)
(* it: it is 0 when the owner has just created it, it is never negative,   *)
(* and every consumer that has joined and not left has its entry.          *)
(***************************************************************************)
C19_CountIsJoinedNotLeft ==
    /\ \A e \in DOMAIN counts :
           /\ counts[e] = Cardinality({c \in Callers : JoinedNotLeft(c) /\ internal_key[c] = e})
           /\ counts[e] >= 0
    /\ \A o \in Callers : (Owner(o) /\ pc[o] = "t119") => counts[internal_key[o]] = 0
    /\ \A c \in Callers : JoinedNotLeft(c) => internal_key[c] \in DOMAIN counts

\* threads: three consumers joined one execution, one of them has read and
\* left, the count is 2
C19_Witness ==
    \E o, c \in Callers :
        /\ form = "thread"
        /\ Owner(o) /\ pc[o] = "t66"
        /\ c \in ConsumersOf(o) /\ pc[c] = "returned"
        /\ Cardinality(ConsumersOf(o)) = 3
        /\ counts[internal_key[o]] = 2

\* the consumers of execution e that take themselves off its count in this
\* step (lines 87-88 / lines 75-77)
Leaving(e) ==
    {c \in Callers : /\ Consumer(c) /\ internal_key[c] = e
                     /\ \/ pc[c] = "t87" /\ pc'[c] = "t91"
                        \/ pc[c] = "a72" /\ pc'[c] = "returned"}

(***************************************************************************)
(* C20: the clear event of an execution is set only by the step in which   *)
(* one consumer takes itself off the count and the count becomes 0, when   *)
(* every consumer that joined has read the result; the consumer whose      *)
(* decrement reaches 0 does set it; and no consumer leaves once it is set, *)
(* so it is set by exactly one of them.                                    *)
(***************************************************************************)
C20_LastReaderSetsClear ==
    [][\A e \in Callers :
           /\ (e \notin clear_event /\ e \in clear_event') =>
                  /\ Cardinality(Leaving(e)) = 1
                  /\ e \in DOMAIN counts' /\ counts'[e] = 0
                  /\ \A d \in Callers :
                         (Consumer(d) /\ internal_key[d] = e) => HasRead(d)'
           /\ (Leaving(e) # {} /\ e \in DOMAIN counts' /\ counts'[e] = 0) =>
                  e \in clear_event'
           /\ Leaving(e) # {} => e \notin clear_event
      ]_vars

\* threads: the last of three consumers has just taken itself off the count
\* and set the clear event; the others have returned, the owner still waits
C20_Witness ==
    \E o, c \in Callers :
        /\ form = "thread"
        /\ Owner(o) /\ pc[o] = "t66"
        /\ internal_key[o] \in clear_event
        /\ counts[internal_key[o]] = 0
        /\ Cardinality(ConsumersOf(o)) = 3
        /\ c \in ConsumersOf(o) /\ pc[c] = "t91"
        /\ \A d \in ConsumersOf(o) \ {c} : pc[d] = "returned"

\* no entry of _running refers to internal key e
NotRegistered(e) == \A k \in DOMAIN running : running[k] # e

(***************************************************************************)
(* C21: threads. Once no entry of _running refers to the internal key of   *)
(* an owner (it has passed its removal under _running_lock, or a force_new *)
(* call has replaced its entry), no step makes its count larger; and from  *)
(* the check under _counts_lock up to the event.set() after the publish    *)
(* under _results_lock, has_consumers is still what the count says.        *)
(***************************************************************************)
C21_CheckAndPublishAtomic ==
    [][form = "thread" => \A o \in Callers :
           /\ (/\ Owner(o) /\ pc[o] # "t117"
               /\ NotRegistered(internal_key[o])
               /\ internal_key[o] \in DOMAIN counts
               /\ internal_key[o] \in DOMAIN counts') =>
                  counts'[internal_key[o]] <= counts[internal_key[o]]
           /\ (Owner(o) /\ pc[o] \in {"t55", "t59", "t61", "t63"}) =>
                  (has_consumers[o] <=>
                      /\ internal_key[o] \in DOMAIN counts
                      /\ counts[internal_key[o]] # 0)
      ]_vars

\* threads: an owner found two consumers and is about to publish, while a later
\* caller of the same key without force_new has started an execution of its own
C21_Witness ==
    \E o, d \in Callers :
        /\ form = "thread"
        /\ Owner(o) /\ pc[o] = "t59" /\ has_consumers[o]
        /\ counts[internal_key[o]] = 2
        /\ Owner(d) /\ d > o /\ key[d] = key[o] /\ ~force_new[d]
        /\ pc[d] = "t127"

\* the locks that thread c holds
Held(c) ==
    (IF running_lock = c THEN {"_running_lock"} ELSE {})
        \cup (IF results_lock = c THEN {"_results_lock"} ELSE {})
        \cup (IF counts_lock = c THEN {"_counts_lock"} ELSE {})

\* thread c runs its function or waits on the results event or the clear event
RunsOrWaits(c) == pc[c] \in {"t127", "t82", "t66"}

\* the locks are held as the with blocks nest them: a thread holds one lock, or
\* _counts_lock inside _running_lock, none when it is outside run, runs its
\* function or waits on an event; and a thread that holds a lock can take its
\* next step, or waits only for _counts_lock whose holder can take its next step
LocksWellHeld ==
    \A c \in Callers :
        /\ Held(c) \in {{}, {"_running_lock"}, {"_results_lock"}, {"_counts_lock"},
                        {"_running_lock", "_counts_lock"}}
        /\ pc[c] \in {"idle", "returned", "raised"} => Held(c) = {}
        /\ RunsOrWaits(c) => Held(c) = {}
        /\ Held(c) # {} =>
               \/ ENABLED Progress(c)
               \/ /\ Held(c) = {"_running_lock"}
                  /\ counts_lock \in Callers \ {c}
                  /\ ENABLED Progress(counts_lock)

(***************************************************************************)
(* C22: ThreadingDedup cannot deadlock on its own locks. Before and after  *)
(* every step the locks are held as the with blocks nest them (at most     *)
(* _counts_lock inside _running_lock, no lock while the function runs or   *)
(* an event is waited on, every holder able to go on); a thread that takes *)
(* _running_lock or _results_lock holds no lock at all, and a thread that  *)
(* takes _counts_lock holds at most _running_lock.                         *)
(***************************************************************************)
C22_NoLockDeadlock ==
    [][form = "thread" =>
           /\ LocksWellHeld /\ LocksWellHeld'
           /\ \A c \in Callers :
                  /\ (running_lock # c /\ running_lock' = c) => Held(c) = {}
                  /\ (results_lock # c /\ results_lock' = c) => Held(c) = {}
                  /\ (counts_lock # c /\ counts_lock' = c) =>
                         Held(c) \subseteq {"_running_lock"}
      ]_vars

\* threads: a consumer holds _running_lock and waits for _counts_lock, which the
\* owner of another key holds at its check, while the owner it joins runs its
\* function
C22_Witness ==
    \E a, b, o \in Callers :
        /\ form = "thread"
        /\ pc[a] = "t123" /\ Held(a) = {"_running_lock"}
        /\ pc[b] = "t55" /\ Held(b) = {"_counts_lock"}
        /\ pc[o] = "t127" /\ internal_key[a] = internal_key[o] /\ Held(o) = {}

(***************************************************************************)
(* C23: containment of the stores. Whenever no thread is inside the with   *)
(* block of _running_lock (always, in AsyncDedup), every internal key that *)
(* an entry of _running refers to has a count; in every state every        *)
(* internal key of _results has a count, and no entry of _running refers   *)
(* to an internal key of _results.                                         *)
(***************************************************************************)
C23_StoreContainment ==
    /\ running_lock = 0 => \A k \in DOMAIN running : running[k] \in DOMAIN counts
    /\ DOMAIN results \subseteq DOMAIN counts
    /\ \A k \in DOMAIN running : running[k] \notin DOMAIN results

\* threads, no lock held: the result of one execution is saved for its consumer
\* while a later execution of the same key is registered and counted
C23_Witness ==
    \E o, p \in Callers :
        /\ form = "thread"
        /\ running_lock = 0 /\ results_lock = 0 /\ counts_lock = 0
        /\ Owner(o) /\ internal_key[o] \in DOMAIN results
        /\ Owner(p) /\ key[p] = key[o]
        /\ key[p] \in DOMAIN running /\ running[key[p]] = internal_key[p]
        /\ {internal_key[o], internal_key[p]} \subseteq DOMAIN counts
        /\ counts[internal_key[p]] = 1

(***************************************************************************)
(* C24: legacy AsyncioDedup. While the function of an owner is running the *)
(* entry of its key in _running is the one it installed, so that the pop   *)
(* after the function returned finds an entry, and the internal key it     *)
(* takes from it is its own: no call ends with a KeyError and every owner  *)
(* goes on with the internal key it created.                               *)
(***************************************************************************)
C24_LegacyPopFindsOwnEntry ==
    form = "asyncio" =>
        /\ \A o \in Callers : pc[o] = "l28" =>
               /\ key[o] \in DOMAIN running
               /\ running[key[o]] = uuid4(o)
        /\ \A o \in Callers : Owner(o) => internal_key[o] = uuid4(o)
        /\ \A c \in Callers : ret[c] # KeyError

\* legacy: an owner has popped its entry and waits for its consumer to read,
\* while a later caller of the same key has installed an entry of its own
C24_Witness ==
    \E o, c, d \in Callers :
        /\ form = "asyncio"
        /\ Owner(o) /\ pc[o] = "l43"
        /\ Consumer(c) /\ internal_key[c] = internal_key[o] /\ pc[c] = "l57"
        /\ Owner(d) /\ key[d] = key[o] /\ pc[d] = "l28"
        /\ running[key[d]] = uuid4(d)

====
